---- MODULE Spec2Model ----
(***************************************************************************)
(* Model of Scraper_benchmark.py: three scraping backends (Playwright,     *)
(* Crawl4AI, Firecrawl) launched concurrently by run_benchmark, joined by  *)
(* asyncio.gather(return_exceptions=True), normalised and summarised.      *)
(*                                                                         *)
(* Each coroutine is cut at its awaits: one action per stretch of code     *)
(* between two suspension points.  The external collaborators (browser,    *)
(* crawler SDK, HTTP API) answer nondeterministically.                     *)
(*                                                                         *)
(* Strings of page content are sequences over Chars; error texts are TLA+  *)
(* strings built with \o as the f-strings of the source build them.        *)
(* The wall clock counts units of 1/UnitsPerMs millisecond and is assumed  *)
(* not to step backwards; time_taken is held in milliseconds, i.e. the     *)
(* value round(seconds, 3) of the source times 1000.                       *)
(***************************************************************************)
EXTENDS Integers, Sequences, FiniteSets, TLC

\* ---------------------------------------------------------------- bounds
MaxClock == 2
UnitsPerMs == 2

\* ------------------------------------------------------ program constants
SnippetLen == 200

Chars == {" ", "a"}

\* Texts a page, the SDK or the API can yield: empty, blank, and two texts of
\* different lengths.
Contents == {<<>>, <<" ">>, <<"a">>, <<"a", "a">>}

\* Python's None, for values that are either None or a text.
None == <<"None">>

\* Python truthiness of an Optional[str]: `if content`, `x or y`.
Truthy(c) == c # None /\ c # <<>>

\* x or y
PyOr(x, y) == IF Truthy(x) THEN x ELSE y

RECURSIVE LStrip(_)
LStrip(s) == IF s # <<>> /\ Head(s) = " " THEN LStrip(Tail(s)) ELSE s

RECURSIVE RStrip(_)
RStrip(s) ==
    IF s # <<>> /\ s[Len(s)] = " " THEN RStrip(SubSeq(s, 1, Len(s) - 1)) ELSE s

\* str.strip()
Strip(s) == RStrip(LStrip(s))

\* content[:n]
Prefix(s, n) == SubSeq(s, 1, IF Len(s) < n THEN Len(s) ELSE n)

\* round(time_taken, 3): d in clock units, the result in milliseconds,
\* halves to the even neighbour.
Round3(d) ==
    LET q == d \div UnitsPerMs
        r == d % UnitsPerMs
    IN  IF 2 * r < UnitsPerMs THEN q
        ELSE IF 2 * r > UnitsPerMs THEN q + 1
        ELSE IF q % 2 = 0 THEN q ELSE q + 1

\* ------------------------------------------------------------- backends
Playwright == 1
Crawl4AI == 2
Firecrawl == 3

Backends == {Playwright, Crawl4AI, Firecrawl}

\* scrapers[i].tool_name, in the order of the list at lines 282-286.
ToolName(i) ==
    CASE i = Playwright -> "Playwright"
      [] i = Crawl4AI -> "Crawl4AI"
      [] i = Firecrawl -> "Firecrawl"

\* format_output measuring the stripped text.
FormatOutputStripped(name, time_taken, content) ==
    [tool_name |-> name,
     time_taken |-> Round3(time_taken),
     content_length |-> Len(Strip(content)),
     content_snippet |-> IF Truthy(content) THEN Strip(Prefix(content, SnippetLen)) ELSE <<>>]

\* BaseScraper.format_output
FormatOutput(name, time_taken, content) ==
    [tool_name |-> name,
     time_taken |-> Round3(time_taken),
     content_length |-> Len(content),
     content_snippet |-> IF Truthy(content) THEN Strip(Prefix(content, SnippetLen)) ELSE <<>>]

\* The error dictionary every `except` block of a backend returns.
ErrorRecord(name, time_taken, snippet, error) ==
    [tool_name |-> name,
     time_taken |-> Round3(time_taken),
     content_length |-> 0,
     content_snippet |-> snippet,
     error |-> error]

\* `except Exception as e` blocks: snippet "ERROR: <e>", error "<e>".
CaughtRecord(name, time_taken, msg) ==
    ErrorRecord(name, time_taken, "ERROR: " \o msg, msg)

\* How a coroutine ends: it has not ended, it returned a dictionary, or an
\* exception left it.
Pending == [kind |-> "pending"]
Returned(rec) == [kind |-> "returned", value |-> rec]
Raised(msg) == [kind |-> "raised", msg |-> msg]

\* ------------------------------------------------------------ credentials
NoKey == "<None>"
EnvKeys == {NoKey, "", "env-key"}
ArgKeys == {NoKey, "arg-key"}

\* The key check as `self.api_key is None`.
MissingKeyOnlyNone(k) == k = NoKey

\* `not self.api_key`
MissingKey(k) == k = NoKey \/ k = ""

\* FirecrawlScraper.__init__: the api_key the instance keeps.
FirecrawlInit(api_key, env) == env

VARIABLES
    envKey,          \* os.getenv("FIRECRAWL_API_KEY")
    argKey,          \* run_benchmark's firecrawl_api_key
    runnerPc,        \* position of run_benchmark
    clock,           \* time.time()
    taskPc,          \* position of each scrape coroutine
    startTime,       \* start_time of each scrape
    outcome,         \* how each scrape ended
    elapsedMs,       \* wall-clock time each scrape took, start to end, rounded
    doneOrder,       \* backends in the order their scrapes ended
    browser,         \* Playwright's browser: "none", "open", "closed"
    pwContent,       \* PlaywrightScraper.scrape's content
    pwPending,       \* exception raised inside the inner try, awaiting `finally`
    fcKey,           \* FirecrawlScraper.api_key
    httpCalls,       \* number of client.post calls made
    httpAuth,        \* credential of the Authorization header last sent
    fcStatus,        \* response.status_code last received, 0 if none
    fcBody,          \* response.text last received
    formatted,       \* formatted_results
    summary          \* <<>> or <<[fastest, largest]>>: what the summary prints

vars == <<envKey, argKey, runnerPc, clock, taskPc, startTime, outcome, elapsedMs,
          doneOrder, browser, pwContent, pwPending, fcKey, httpCalls, httpAuth,
          fcStatus, fcBody, formatted, summary>>

runnerVars == <<envKey, argKey, runnerPc, fcKey, formatted, summary>>
pwVars == <<browser, pwContent, pwPending>>
fcVars == <<httpCalls, httpAuth, fcStatus, fcBody>>

Init ==
    /\ envKey \in EnvKeys
    /\ argKey \in ArgKeys
    /\ runnerPc = "start"
    /\ clock = 0
    /\ taskPc = [i \in Backends |-> "created"]
    /\ startTime = [i \in Backends |-> 0]
    /\ outcome = [i \in Backends |-> Pending]
    /\ elapsedMs = [i \in Backends |-> 0]
    /\ doneOrder = <<>>
    /\ browser = "none"
    /\ pwContent = <<>>
    /\ pwPending = ""
    /\ fcKey = NoKey
    /\ httpCalls = 0
    /\ httpAuth = NoKey
    /\ fcStatus = 0
    /\ fcBody = ""
    /\ formatted = <<>>
    /\ summary = <<>>

\* The wall clock advances.
Tick ==
    /\ clock < MaxClock
    /\ clock' = clock + 1
    /\ UNCHANGED <<runnerVars, taskPc, startTime, outcome, elapsedMs, doneOrder,
                   pwVars, fcVars>>

\* A scrape coroutine ends with `out`, d clock units after it started; its
\* frame, start_time included, ends with it.
Settle(i, d, out) ==
    /\ taskPc' = [taskPc EXCEPT ![i] = "done"]
    /\ outcome' = [outcome EXCEPT ![i] = out]
    /\ elapsedMs' = [elapsedMs EXCEPT ![i] = Round3(d)]
    /\ doneOrder' = Append(doneOrder, i)
    /\ startTime' = [startTime EXCEPT ![i] = 0]

\* A scrape coroutine moves on to its next await.
Goto(i, pc) ==
    /\ taskPc' = [taskPc EXCEPT ![i] = pc]
    /\ UNCHANGED <<startTime, outcome, elapsedMs, doneOrder>>

\* start_time = time.time(), and the coroutine runs to its first await.
Begin(i, pc) ==
    /\ taskPc' = [taskPc EXCEPT ![i] = pc]
    /\ startTime' = [startTime EXCEPT ![i] = clock]
    /\ UNCHANGED <<outcome, elapsedMs, doneOrder>>

\* time.time() - start_time
Elapsed(i) == clock - startTime[i]

\* ------------------------------------------------------------ Playwright
\* str(e) of the faults the browser driver raises.
PwLaunchMsg == "launch failed"
PwNewPageMsg == "new_page failed"
PwTimeoutMsg == "Timeout exceeded"
PwOtherMsg == "net::ERR_FAILED"

\* except PlaywrightTimeoutError as e: raise Exception(...)
PwTimeoutError == "Playwright timeout: " \o PwTimeoutMsg

\* except Exception as e: raise Exception(...)
PwNavigationError == "Playwright navigation error: " \o PwOtherMsg

\* `not content or len(content.strip()) == 0`
Blank(content) == ~Truthy(content) \/ Len(Strip(content)) = 0

\* The code after the outer try of PlaywrightScraper.scrape.
PlaywrightTail(time_taken, content) ==
    IF Blank(content)
    THEN Raised("Empty content returned")
    ELSE Returned(FormatOutput(ToolName(Playwright), time_taken, content))

\* start_time = time.time(); content = ""; up to the launch being awaited.
PwStart ==
    /\ runnerPc = "gathering"
    /\ taskPc[Playwright] = "created"
    /\ pwContent' = <<>>
    /\ Begin(Playwright, "launch")
    /\ UNCHANGED <<runnerVars, clock, browser, pwPending, fcVars>>

\* async_playwright() is entered and chromium launched, or either fails and
\* the outer `except Exception` returns the error dictionary.
PwLaunch ==
    /\ taskPc[Playwright] = "launch"
    /\ \/ /\ browser' = "open"
          /\ Goto(Playwright, "new_page")
       \/ /\ Settle(Playwright, Elapsed(Playwright),
                    Returned(CaughtRecord(ToolName(Playwright), Elapsed(Playwright), PwLaunchMsg)))
          /\ UNCHANGED browser
    /\ UNCHANGED <<runnerVars, clock, pwContent, pwPending, fcVars>>

\* page = await browser.new_page(): it stands before the inner try, so its
\* failure goes to the outer `except Exception` without passing `finally`.
PwNewPage ==
    /\ taskPc[Playwright] = "new_page"
    /\ \/ Goto(Playwright, "goto")
       \/ Settle(Playwright, Elapsed(Playwright),
                 Returned(CaughtRecord(ToolName(Playwright), Elapsed(Playwright), PwNewPageMsg)))
    /\ UNCHANGED <<runnerVars, clock, pwVars, fcVars>>

\* An exception raised in the inner try: re-raised with its prefix, it waits
\* for `finally: await browser.close()`.
PwFail(msg) ==
    /\ pwPending' = msg
    /\ Goto(Playwright, "close")

\* await page.goto(url, wait_until="networkidle", timeout=30000)
PwGoto ==
    /\ taskPc[Playwright] = "goto"
    /\ \/ Goto(Playwright, "wait_main") /\ UNCHANGED pwPending
       \/ PwFail(PwTimeoutError)
       \/ PwFail(PwNavigationError)
    /\ UNCHANGED <<runnerVars, clock, browser, pwContent, fcVars>>

\* await page.wait_for_selector("main", timeout=5000)
PwWaitMain ==
    /\ taskPc[Playwright] = "wait_main"
    /\ \/ Goto(Playwright, "evaluate") /\ UNCHANGED pwPending
       \/ Goto(Playwright, "wait_body") /\ UNCHANGED pwPending
       \/ PwFail(PwNavigationError)
    /\ UNCHANGED <<runnerVars, clock, browser, pwContent, fcVars>>

\* await page.wait_for_selector("body", timeout=5000)
PwWaitBody ==
    /\ taskPc[Playwright] = "wait_body"
    /\ \/ Goto(Playwright, "evaluate") /\ UNCHANGED pwPending
       \/ PwFail(PwTimeoutError)
       \/ PwFail(PwNavigationError)
    /\ UNCHANGED <<runnerVars, clock, browser, pwContent, fcVars>>

\* content = await page.evaluate("() => document.body.innerText")
PwEvaluate ==
    /\ taskPc[Playwright] = "evaluate"
    /\ \/ /\ \E c \in Contents : pwContent' = c
          /\ Goto(Playwright, "close")
          /\ UNCHANGED pwPending
       \/ PwFail(PwNavigationError) /\ UNCHANGED pwContent
    /\ UNCHANGED <<runnerVars, clock, browser, fcVars>>

\* finally: await browser.close(); then the pending exception reaches the
\* outer `except Exception`, or the code after the try runs.
PwClose ==
    /\ taskPc[Playwright] = "close"
    /\ browser' = "closed"
    /\ pwContent' = <<>>
    /\ pwPending' = ""
    /\ IF pwPending # ""
       THEN Settle(Playwright, Elapsed(Playwright),
                   Returned(CaughtRecord(ToolName(Playwright), Elapsed(Playwright), pwPending)))
       ELSE Settle(Playwright, Elapsed(Playwright), PlaywrightTail(Elapsed(Playwright), pwContent))
    /\ UNCHANGED <<runnerVars, clock, fcVars>>

\* -------------------------------------------------------------- Crawl4AI
C4EnterMsg == "crawler start failed"
C4ArunMsg == "arun failed"
C4ErrorMessage == "blocked"

\* What crawler.arun can hand back: the fields scrape reads.  A field the
\* object lacks reads as None here (hasattr false and None take the same
\* branches for markdown and extracted_content).
CrawlResults ==
    [success : BOOLEAN, has_error_message : BOOLEAN,
     markdown : Contents \cup {None}, extracted_content : Contents \cup {None}]

\* The body of `async with AsyncWebCrawler(...)` after arun returned `result`,
\* and the return after the try.
Crawl4AITail(time_taken, result) ==
    LET md == IF Truthy(result.markdown) THEN result.markdown ELSE <<>>
        content == IF ~Truthy(md) THEN result.extracted_content ELSE md
    IN  IF ~result.success
        THEN Returned(CaughtRecord(ToolName(Crawl4AI), time_taken,
                 "Crawl4AI failed: " \o
                 (IF result.has_error_message THEN C4ErrorMessage ELSE "Unknown error")))
        ELSE IF ~Truthy(content)
        THEN Returned(CaughtRecord(ToolName(Crawl4AI), time_taken,
                                   "No content extracted by Crawl4AI"))
        ELSE Returned(FormatOutput(ToolName(Crawl4AI), time_taken, content))

\* start_time = time.time(); the import of crawl4ai; up to the crawler being
\* entered.
C4Start ==
    /\ runnerPc = "gathering"
    /\ taskPc[Crawl4AI] = "created"
    /\ \/ Begin(Crawl4AI, "crawler_enter")
       \/ Settle(Crawl4AI, 0,
                 Returned(ErrorRecord(ToolName(Crawl4AI), 0,
                     "ERROR: Crawl4AI not installed. Run: pip install crawl4ai",
                     "Module not found")))
    /\ UNCHANGED <<runnerVars, clock, pwVars, fcVars>>

\* async with AsyncWebCrawler(verbose=False, headless=True) as crawler
C4Enter ==
    /\ taskPc[Crawl4AI] = "crawler_enter"
    /\ \/ Goto(Crawl4AI, "arun")
       \/ Settle(Crawl4AI, Elapsed(Crawl4AI),
                 Returned(CaughtRecord(ToolName(Crawl4AI), Elapsed(Crawl4AI), C4EnterMsg)))
    /\ UNCHANGED <<runnerVars, clock, pwVars, fcVars>>

\* result = await crawler.arun(url=url), and all that follows it.
C4Arun ==
    /\ taskPc[Crawl4AI] = "arun"
    /\ \/ \E result \in CrawlResults :
              Settle(Crawl4AI, Elapsed(Crawl4AI), Crawl4AITail(Elapsed(Crawl4AI), result))
       \/ Settle(Crawl4AI, Elapsed(Crawl4AI),
                 Returned(CaughtRecord(ToolName(Crawl4AI), Elapsed(Crawl4AI), C4ArunMsg)))
    /\ UNCHANGED <<runnerVars, clock, pwVars, fcVars>>

\* ------------------------------------------------------------- Firecrawl
FcNetworkMsg == "connection refused"
FcJsonMsg == "Expecting value"

\* Status codes and bodies the API answers with.
Statuses == {200, 401, 402, 500}
Bodies == {"", "oops"}

\* response.json() of an answer whose text is no JSON object.
NoJson == [valid |-> FALSE, markdown |-> None, content |-> None]

\* response.json() of a 200 answer: no JSON, or an object whose "markdown" and
\* "content" (under "data" or at the top: both shapes are read alike) are
\* texts or missing.
JsonBodies ==
    {NoJson} \cup
    [valid : {TRUE}, markdown : Contents \cup {None}, content : Contents \cup {None}]

\* What the API answers: a status, the text of the body, and what
\* response.json() makes of it.  The text of a 200 answer is the JSON held in
\* `data`, and reads "" here.
Responses ==
    {[status |-> st, body |-> b, data |-> NoJson] :
        st \in Statuses \ {200}, b \in Bodies}
    \cup {[status |-> 200, body |-> "", data |-> d] : d \in JsonBodies}

\* The status checks without the 402 branch.
FirecrawlStatusErrorNo402(status, body) ==
    IF status = 401 THEN "Invalid API key"
    ELSE IF status # 200 THEN "API error: " \o ToString(status) \o " - " \o body
    ELSE ""

\* The status checks after client.post: the text of the exception raised, ""
\* when none is.
FirecrawlStatusError(status, body) ==
    IF status = 401 THEN "Invalid API key"
    ELSE IF status = 402 THEN "API quota exceeded"
    ELSE IF status # 200 THEN "API error: " \o ToString(status) \o " - " \o body
    ELSE ""

\* The code of FirecrawlScraper.scrape from the status checks to the return.
\* The nested and the flat shape read the same two fields.
FirecrawlTail(time_taken, status, body, data) ==
    LET content == PyOr(PyOr(data.markdown, data.content), <<>>)
        err == FirecrawlStatusError(status, body)
    IN  IF err # ""
        THEN Returned(CaughtRecord(ToolName(Firecrawl), time_taken, err))
        ELSE IF ~data.valid
        THEN Returned(CaughtRecord(ToolName(Firecrawl), time_taken, FcJsonMsg))
        ELSE IF ~Truthy(content)
        THEN Returned(CaughtRecord(ToolName(Firecrawl), time_taken,
                                   "Empty content returned from Firecrawl API"))
        ELSE Returned(FormatOutput(ToolName(Firecrawl), time_taken, content))

\* start_time = time.time(); the API key check; up to the client being entered.
FcStart ==
    /\ runnerPc = "gathering"
    /\ taskPc[Firecrawl] = "created"
    /\ IF MissingKey(fcKey)
       THEN Settle(Firecrawl, 0,
                   Returned(ErrorRecord(ToolName(Firecrawl), 0,
                       "ERROR: FIRECRAWL_API_KEY not set", "Missing API key")))
       ELSE Begin(Firecrawl, "post")
    /\ UNCHANGED <<runnerVars, clock, pwVars, fcVars>>

\* client.post(self.base_url, json=payload, headers=headers) is sent.
FcPost ==
    /\ taskPc[Firecrawl] = "post"
    /\ httpCalls' = httpCalls + 1
    /\ httpAuth' = fcKey
    /\ Goto(Firecrawl, "response")
    /\ UNCHANGED <<runnerVars, clock, pwVars, fcStatus, fcBody>>

\* The awaited post ends: with httpx.RequestError, or with a response, and the
\* rest of scrape runs.
FcResponse ==
    /\ taskPc[Firecrawl] = "response"
    /\ \/ /\ Settle(Firecrawl, Elapsed(Firecrawl),
                    Returned(ErrorRecord(ToolName(Firecrawl), Elapsed(Firecrawl),
                        "ERROR: Network failure - " \o FcNetworkMsg,
                        "Network error: " \o FcNetworkMsg)))
          /\ UNCHANGED <<fcStatus, fcBody>>
       \/ \E response \in Responses :
             /\ fcStatus' = response.status
             /\ fcBody' = response.body
             /\ Settle(Firecrawl, Elapsed(Firecrawl),
                       FirecrawlTail(Elapsed(Firecrawl), response.status, response.body,
                                     response.data))
    /\ UNCHANGED <<runnerVars, clock, pwVars, httpCalls, httpAuth>>

\* ---------------------------------------------------------- run_benchmark
\* gather without return_exceptions: the first exception reaches the caller.
GatherFirstException(outs, order) ==
    IF \E i \in Backends : outs[i].kind = "raised"
    THEN [kind |-> "raise"]
    ELSE [kind |-> "results", results |-> [i \in 1..3 |-> outs[i]]]

\* Results collected as the tasks end (asyncio.as_completed).
GatherCompletionOrder(outs, order) ==
    [kind |-> "results", results |-> [i \in 1..3 |-> outs[order[i]]]]

\* await asyncio.gather(*tasks, return_exceptions=True), all tasks done: the
\* list of their results and exceptions in the order of `tasks`; `order` is
\* the order in which they ended.
Gather(outs, order) ==
    [kind |-> "results", results |-> [i \in 1..3 |-> outs[i]]]

\* The loop body at `for i, result in enumerate(results)`.
FormatResult(i, result) ==
    IF result.kind = "raised"
    THEN [tool_name |-> ToolName(i),
          time_taken |-> 0,
          content_length |-> 0,
          content_snippet |-> "ERROR: " \o result.msg,
          error |-> result.msg]
    ELSE result.value

\* "error" not in r
IsSuccess(r) == "error" \notin DOMAIN r

\* The summary taken over every record.
SuccessfulUnfiltered(results) == results

\* successful = [r for r in formatted_results if "error" not in r]
Successful(results) == SelectSeq(results, IsSuccess)

\* min(successful, key=lambda x: x['time_taken']): the first of the minima.
Fastest(s) ==
    s[CHOOSE k \in 1..Len(s) :
        /\ \A j \in 1..Len(s) : s[k].time_taken <= s[j].time_taken
        /\ \A j \in 1..(k - 1) : s[j].time_taken > s[k].time_taken]

\* max(successful, key=lambda x: x['content_length']): the first of the maxima.
Largest(s) ==
    s[CHOOSE k \in 1..Len(s) :
        /\ \A j \in 1..Len(s) : s[k].content_length >= s[j].content_length
        /\ \A j \in 1..(k - 1) : s[j].content_length < s[k].content_length]

\* The summary block: nothing is printed when `successful` is empty.
Summary(results) ==
    LET successful == Successful(results)
    IN  IF successful = <<>> THEN <<>>
        ELSE <<[fastest |-> Fastest(successful), largest |-> Largest(successful)]>>

\* gather returns once every task it was given is done.
AllSettled == \A i \in Backends : taskPc[i] = "done"

\* run_benchmark up to `await asyncio.gather(...)`: the scrapers are built
\* and their three coroutines handed to gather.
RunBenchmarkStart ==
    /\ runnerPc = "start"
    /\ fcKey' = FirecrawlInit(argKey, envKey)
    /\ runnerPc' = "gathering"
    /\ UNCHANGED <<envKey, argKey, formatted, summary, clock, taskPc, startTime,
                   outcome, elapsedMs, doneOrder, pwVars, fcVars>>

\* run_benchmark from gather's return to its own.
RunBenchmarkFinish ==
    /\ runnerPc = "gathering"
    /\ AllSettled
    /\ LET g == Gather(outcome, doneOrder)
       IN  IF g.kind = "raise"
           THEN /\ runnerPc' = "raised"
                /\ UNCHANGED <<formatted, summary>>
           ELSE LET formatted_results == [i \in 1..3 |-> FormatResult(i, g.results[i])]
                IN  /\ formatted' = formatted_results
                    /\ summary' = Summary(formatted_results)
                    /\ runnerPc' = "returned"
    /\ UNCHANGED <<envKey, argKey, fcKey, clock, taskPc, startTime, outcome,
                   elapsedMs, doneOrder, pwVars, fcVars>>

PlaywrightStep ==
    \/ PwStart \/ PwLaunch \/ PwNewPage \/ PwGoto \/ PwWaitMain \/ PwWaitBody
    \/ PwEvaluate \/ PwClose

Crawl4AIStep == C4Start \/ C4Enter \/ C4Arun

FirecrawlStep == FcStart \/ FcPost \/ FcResponse

Next ==
    \/ Tick
    \/ RunBenchmarkStart
    \/ PwStart \/ PwLaunch \/ PwNewPage \/ PwGoto \/ PwWaitMain \/ PwWaitBody
    \/ PwEvaluate \/ PwClose
    \/ C4Start \/ C4Enter \/ C4Arun
    \/ FcStart \/ FcPost \/ FcResponse
    \/ RunBenchmarkFinish

Spec == Init /\ [][Next]_vars

\* ------------------------------------------------------------ properties
\* run_benchmark has returned its list.
RunReturned == runnerPc = "returned"

\* "error" in result
HasError(r) == "error" \in DOMAIN r

\* C1: for each backend, every scrape call ends by returning one result
\* record; none ends with an exception leaving it.
C1_ScrapeNeverRaises ==
    \A i \in Backends : taskPc[i] = "done" => outcome[i].kind = "returned"

\* C2: whatever the order in which the three scrapes end, the list
\* run_benchmark returns has exactly 3 records and record i carries the name
\* of the i-th configured backend.
C2_ConfiguredOrder ==
    RunReturned =>
        /\ Len(formatted) = 3
        /\ formatted[1].tool_name = "Playwright"
        /\ formatted[2].tool_name = "Crawl4AI"
        /\ formatted[3].tool_name = "Firecrawl"

\* run_benchmark returned although the last configured backend ended first,
\* the first configured one last, and a backend failed.
C2_Witness ==
    /\ RunReturned
    /\ doneOrder = <<Firecrawl, Crawl4AI, Playwright>>
    /\ \E i \in 1..3 : HasError(formatted[i])

\* C3: in every record of the returned list, 'error' is present if and only
\* if content_length is 0.
C3_ErrorIffZeroLength ==
    RunReturned =>
        \A i \in 1..3 : HasError(formatted[i]) <=> formatted[i].content_length = 0

\* The returned list holds a record of each origin: converted at the join
\* point, made by a backend's own handler, and made by format_output.
C3_Witness ==
    /\ RunReturned
    /\ outcome[Playwright].kind = "raised"
    /\ outcome[Firecrawl].kind = "returned" /\ HasError(formatted[Firecrawl])
    /\ ~HasError(formatted[Crawl4AI])

\* C4: with no credential, the Firecrawl scrape returns the record with error
\* "Missing API key" and content_length 0, and no HTTP request is ever sent.
C4_MissingKeyNoHttp ==
    (runnerPc # "start" /\ fcKey \in {NoKey, ""}) =>
        /\ httpCalls = 0
        /\ taskPc[Firecrawl] = "done" =>
              /\ outcome[Firecrawl].kind = "returned"
              /\ HasError(outcome[Firecrawl].value)
              /\ outcome[Firecrawl].value.error = "Missing API key"
              /\ outcome[Firecrawl].value.content_length = 0

\* The Firecrawl scrape ended with an empty credential configured.
C4_Witness ==
    /\ taskPc[Firecrawl] = "done"
    /\ fcKey = ""

\* C5: a credential passed to run_benchmark overrides the environment: with
\* one passed and the environment variable unset, the Firecrawl scrape does
\* not end with the missing-credential error and sends its request with the
\* passed credential.
C5_PassedKeyOverrides ==
    (taskPc[Firecrawl] = "done" /\ argKey \notin {NoKey, ""} /\ envKey = NoKey) =>
        /\ outcome[Firecrawl].kind = "returned"
        /\ HasError(outcome[Firecrawl].value) =>
              outcome[Firecrawl].value.error # "Missing API key"
        /\ httpCalls = 1
        /\ httpAuth = argKey

\* C6: the summary is taken over the records without 'error' only: fastest
\* has the least time_taken among them, most content the greatest
\* content_length; with no such record there is no summary, and run_benchmark
\* does not raise.
C6_SummaryOverSuccesses ==
    /\ runnerPc # "raised"
    /\ RunReturned =>
          LET ok == {i \in 1..3 : ~HasError(formatted[i])}
          IN  IF ok = {} THEN summary = <<>>
              ELSE /\ Len(summary) = 1
                   /\ \E i \in ok :
                         /\ summary[1].fastest = formatted[i]
                         /\ \A j \in ok : formatted[i].time_taken <= formatted[j].time_taken
                   /\ \E i \in ok :
                         /\ summary[1].largest = formatted[i]
                         /\ \A j \in ok :
                               formatted[i].content_length >= formatted[j].content_length

\* Two backends succeeded with different times and lengths, the slower having
\* the more content, and the third failed with the least time of all.
C6_Witness ==
    /\ RunReturned
    /\ \E i, j, k \in 1..3 :
          /\ ~HasError(formatted[i]) /\ ~HasError(formatted[j]) /\ HasError(formatted[k])
          /\ formatted[i].time_taken < formatted[j].time_taken
          /\ formatted[i].content_length < formatted[j].content_length
          /\ formatted[k].time_taken < formatted[j].time_taken

\* C7: once the API has answered, 401 gives the invalid-credential error, 402
\* the quota error, any other non-200 status the generic error with status
\* and body; the three texts tell the three cases apart, each comes with
\* content_length 0, and only a 200 answer gives a record without 'error'.
C7_StatusMapping ==
    (taskPc[Firecrawl] = "done" /\ fcStatus # 0) =>
        /\ outcome[Firecrawl].kind = "returned"
        /\ LET r == outcome[Firecrawl].value
               generic == "API error: " \o ToString(fcStatus) \o " - " \o fcBody
           IN  /\ ~HasError(r) => fcStatus = 200
               /\ fcStatus # 200 =>
                     /\ HasError(r)
                     /\ r.content_length = 0
                     /\ r.error = "Invalid API key" <=> fcStatus = 401
                     /\ r.error = "API quota exceeded" <=> fcStatus = 402
                     /\ r.error = generic <=> fcStatus \notin {401, 402}

\* The API answered 402 and the scrape ended.
C7_Witness ==
    /\ taskPc[Firecrawl] = "done"
    /\ fcStatus = 402
    /\ httpCalls = 1

\* C8: no exit of the Playwright scrape leaves a launched browser unclosed.
C8_BrowserClosedOnExit ==
    taskPc[Playwright] = "done" => browser # "open"

\* C9: run_benchmark returns only after all three scrapes have ended, never
\* raises, and no backend's failure stops another: as long as gather waits,
\* every scrape that has not ended can take its next step, and once all have
\* ended run_benchmark can return.
C9_FanInJoin ==
    /\ runnerPc # "raised"
    /\ RunReturned =>
          /\ \A i \in Backends : taskPc[i] = "done" /\ outcome[i].kind # "pending"
          /\ Len(formatted) = 3
    /\ runnerPc = "gathering" =>
          /\ taskPc[Playwright] # "done" => ENABLED PlaywrightStep
          /\ taskPc[Crawl4AI] # "done" => ENABLED Crawl4AIStep
          /\ taskPc[Firecrawl] # "done" => ENABLED FirecrawlStep
          /\ (\A i \in Backends : taskPc[i] = "done") => ENABLED RunBenchmarkFinish

\* run_benchmark returned after one scrape raised, one returned an error
\* record and one succeeded.
C9_Witness ==
    /\ RunReturned
    /\ outcome[Playwright].kind = "raised"
    /\ outcome[Crawl4AI].kind = "returned" /\ HasError(outcome[Crawl4AI].value)
    /\ outcome[Firecrawl].kind = "returned" /\ ~HasError(outcome[Firecrawl].value)

\* C10: every record of the returned list has as time_taken the wall-clock
\* time its scrape took from start to end (rounded), which is never negative.
C10_TimeTakenIsElapsed ==
    RunReturned =>
        \A i \in 1..3 :
            /\ formatted[i].time_taken >= 0
            /\ formatted[i].time_taken = elapsedMs[i]

====
